---- MODULE Spec2Model ----
(***************************************************************************)
(* The wheel ("roue") subsystem of server.js: the roue_tentatives table,   *)
(* the POST /api/roue/check and POST /api/roue/spin handlers of the        *)
(* PostgreSQL variants and of the SQLite variant, and the clock they read. *)
(*                                                                         *)
(* Time is an integer count of ticks since the epoch (an instant, as a JS  *)
(* Date holds it); a calendar date is a day number.  A handler is split at *)
(* the points where the code yields to the event loop: the synchronous     *)
(* prologue (Receive), the SELECT with the code that runs on its result    *)
(* (Select), and the INSERT/UPDATE with the code that runs on its result   *)
(* (Write).  Requests interleave at these points, as they do in Node.      *)
(* The requests in flight are a bag of the handlers' local states; the     *)
(* answer a step sends is held in sent, with the locals of the request it  *)
(* answers, until the next step.                                           *)
(***************************************************************************)
EXTENDS Integers, Sequences, FiniteSets, Bags, TLC

\* ---------------------------------------------------------------- bounds
MaxRequests == 3   \* requests received over a run, in flight together or not
TicksPerDay == 2   \* clock resolution: instants per calendar day
MaxTicks == 3      \* ticks of the clock over a run

MaxArrivals == 22  \* requests that reach the rate limiter over a run

\* ------------------------------------------------------- program constants
WheelSlots == 50   \* Math.floor(Math.random() * 50)
RATE_LIMIT_WINDOW == 60000   \* ms
MAX_REQUESTS == 20

\* The run starts at 00:00 of day 1.
FirstTick == TicksPerDay
LastTick == FirstTick + MaxTicks

Variants == {"pg", "sqlite"}
\* Offset of the process's local time from UTC, in ticks (TZ of the host).
TZOffsets == {-1, 0, 1}

\* req.body.userIdentifier as JSON delivers it: a string, a number, or absent.
Str(s) == [type |-> "string", val |-> s]
Absent == [type |-> "undefined", val |-> ""]
Num7 == [type |-> "number", val |-> "7"]
Identifiers == {"a"}
Bodies == {Str(s) : s \in Identifiers} \cup {Absent, Num7}
\* Values the user_identifier column can hold in this model: the number 7
\* is bound as the text '7'.
DbKeys == Identifiers \cup {Num7.val}
SqlNull == "NULL"

\* req.ip: the clients of the rate limiter.
IPs == {"ip1", "ip2"}
\* new Map()
EmptyMap == [ip \in {} |-> <<>>]

VARIABLES
    variant,   \* which of the concatenated programs of server.js runs
    tz,        \* the process's offset from UTC
    now,       \* the clock: Date.now() in ticks
    table,     \* roue_tentatives: rows in insertion order
    inflight,  \* bag of the requests between their arrival and their answer
    sent,      \* the answer sent by the step just taken, if any
    served,    \* requests received so far
    commits,   \* history: committed spins per (user_identifier, date of commit)
    resultats, \* the resultats table: rows in insertion order
    requestCounts,  \* the rate limiter's Map: IP -> times of recent requests
    admitted,  \* history: per IP, the times of all the requests admitted
    uncleaned  \* the Map as rateLimiter alone would leave it, never cleaned

vars ==
    <<variant, tz, now, table, inflight, sent, served, commits, resultats,
      requestCounts, admitted, uncleaned>>

NoResp == [status |-> 0]
\* res.status(500): err is what the catch block or the callback received,
\* a refused constraint or a store that could not be reached.
ServerError(err) == [status |-> 500, err |-> err]

\* The locals of a handler: the identifier, today, the SELECT's rows, hasWon.
\* queries counts the statements the request has issued to the store; repeat
\* marks a spin that arrived alone on a date on which its identifier had
\* already committed a spin.
Request(kind, body, today) ==
    [pc |-> "select", kind |-> kind, body |-> body, today |-> today,
     rows |-> <<>>, hasWon |-> FALSE, queries |-> 1, repeat |-> FALSE]

\* An answer, with the locals of the request it answers.
Answer(q, resp) ==
    [kind |-> q.kind, body |-> q.body, today |-> q.today,
     rows |-> q.rows, queries |-> q.queries, repeat |-> q.repeat, resp |-> resp]

NoAnswer ==
    [kind |-> "none", body |-> Absent, today |-> 0,
     rows |-> <<>>, queries |-> 0, repeat |-> FALSE, resp |-> NoResp]

One(q) == SetToBag({q})
Pending == BagToSet(inflight)

\* ------------------------------------------------------------ conversions

\* new Date().toISOString().split('T')[0]: the UTC calendar date of an instant.
ISODate(t) == t \div TicksPerDay

Days == ISODate(FirstTick)..ISODate(LastTick)

\* node-postgres hands a DATE column to JS as a Date at LOCAL midnight of
\* that date; the instant it holds is therefore shifted by the offset.
PgDateValue(d) == d * TicksPerDay - tz

\* row.last_spin_date.toISOString().split('T')[0] (PostgreSQL variants).
PgLastDate(row) == ISODate(PgDateValue(row.last_spin_date))

\* new Date('YYYY-MM-DD'): a date-only string is parsed as UTC midnight.
ParseDateString(d) == d * TicksPerDay

\* d.setDate(d.getDate() + 1): one local calendar day later (no DST here).
AddDay(t) == t + TicksPerDay

\* !userIdentifier
Falsy(v) == v.type = "undefined" \/ (v.type = "string" /\ v.val = "")

\* How the driver binds userIdentifier as a query parameter: pg sends
\* undefined as NULL and a number as its decimal text; a string as is.
BindParam(v) == IF v.type = "undefined" THEN SqlNull ELSE v.val

\* ------------------------------------------------------------------ table

\* SELECT * FROM roue_tentatives WHERE user_identifier = $1
\* (a comparison with NULL matches no row).
SelectRows(t, key) ==
    IF key = SqlNull THEN <<>>
    ELSE SelectSeq(t, LAMBDA row : row.user_identifier = key)

\* The column declared NOT NULL only, without UNIQUE.
ViolatesNotNullOnly(t, key) == key = SqlNull

\* user_identifier TEXT NOT NULL UNIQUE: whether an INSERT of key is refused.
ViolatesConstraint(t, key) ==
    \/ key = SqlNull
    \/ \E i \in 1..Len(t) : t[i].user_identifier = key

\* An INSERT that records a first spin as lost, whatever its outcome.
InsertRowLosing(t, key, today, winInc) ==
    Append(t, [user_identifier |-> key, last_spin_date |-> today,
               total_spins |-> 1, total_wins |-> 0])

\* INSERT INTO roue_tentatives (...) VALUES ($1, $2, 1, $3)
InsertRow(t, key, today, winInc) ==
    Append(t, [user_identifier |-> key, last_spin_date |-> today,
               total_spins |-> 1, total_wins |-> winInc])

\* An UPDATE that forgets "total_spins = total_spins + 1".
UpdatedRowWinsOnly(row, today, winInc) ==
    [row EXCEPT !.last_spin_date = today,
                !.total_wins = row.total_wins + winInc]

\* SET last_spin_date = $1, total_spins = total_spins + 1,
\*     total_wins = total_wins + $2
UpdatedRow(row, today, winInc) ==
    [row EXCEPT !.last_spin_date = today,
                !.total_spins = row.total_spins + 1,
                !.total_wins = row.total_wins + winInc]

\* An UPDATE without its WHERE clause.
UpdateRowsAll(t, key, today, winInc) ==
    [i \in 1..Len(t) |-> UpdatedRow(t[i], today, winInc)]

\* An upsert that replaces the row (INSERT OR REPLACE) instead of updating it.
UpdateRowsReplacing(t, key, today, winInc) ==
    [i \in 1..Len(t) |->
        IF key # SqlNull /\ t[i].user_identifier = key
        THEN [t[i] EXCEPT !.last_spin_date = today,
                          !.total_spins = 1,
                          !.total_wins = winInc]
        ELSE t[i]]

\* UPDATE roue_tentatives SET ... WHERE user_identifier = $3
UpdateRows(t, key, today, winInc) ==
    [i \in 1..Len(t) |->
        IF key # SqlNull /\ t[i].user_identifier = key
        THEN UpdatedRow(t[i], today, winInc) ELSE t[i]]

Init ==
    /\ variant \in Variants
    /\ tz \in TZOffsets
    /\ now = FirstTick
    /\ table = <<>>
    /\ inflight = EmptyBag
    /\ sent = NoAnswer
    /\ served = 0
    /\ commits = [k \in DbKeys |-> [d \in Days |-> 0]]
    /\ resultats = <<>>
    /\ requestCounts = EmptyMap
    /\ admitted = [ip \in IPs |-> <<>>]
    /\ uncleaned = EmptyMap

\* The clock advances.
Tick ==
    /\ now < LastTick
    /\ now' = now + 1
    /\ sent' = NoAnswer
    /\ UNCHANGED <<variant, tz, table, inflight, served, commits, resultats,
                   requestCounts, admitted, uncleaned>>

\* ---------------------------------------------------------------- handlers

\* if (!userIdentifier || typeof userIdentifier !== 'string') return 400
\* The SQLite variant has this check; the PostgreSQL variants have none.
InvalidIdentifier(v) == Falsy(v) \/ v.type # "string"

RejectsIdentifier(v) == variant = "sqlite" /\ InvalidIdentifier(v)

\* The synchronous prologue of both handlers: read the body, validate it
\* (SQLite variant), compute today, issue the SELECT.  The SQLite routes
\* pass rateLimiter first; it admits the MaxRequests requests of a run (its
\* limit is 20 per minute) and touches only its own map.
Receive(kind, body) ==
    /\ served < MaxRequests
    /\ served' = served + 1
    /\ IF RejectsIdentifier(body)
       THEN /\ sent' = Answer([Request(kind, body, 0) EXCEPT !.queries = 0],
                              [status |-> 400])
            /\ UNCHANGED inflight
       ELSE LET key == BindParam(body)
                again == /\ kind = "spin"
                         /\ body.type = "string"
                         /\ commits[key][ISODate(now)] >= 1
                         /\ inflight = EmptyBag
                others == BagOfAll(LAMBDA q : [q EXCEPT !.repeat = FALSE],
                                   inflight)
            IN /\ inflight' = others (+)
                     One([Request(kind, body, ISODate(now))
                            EXCEPT !.repeat = again])
               /\ sent' = NoAnswer
    /\ UNCHANGED <<variant, tz, now, table, commits, resultats,
                   requestCounts, admitted, uncleaned>>

\* The body of a 200 answer of /api/roue/check, from the SELECT's rows.
CheckAnswer(rows, today, t) ==
    IF variant = "pg"
    THEN IF rows = <<>> \/ PgLastDate(rows[1]) # today
         THEN [status |-> 200, canSpin |-> TRUE, nextSpinDate |-> <<>>,
               totals |-> <<>>]
         ELSE [status |-> 200, canSpin |-> FALSE,
               nextSpinDate |-> <<AddDay(t)>>, totals |-> <<>>]
    ELSE IF rows = <<>>
         THEN [status |-> 200, canSpin |-> TRUE, nextSpinDate |-> <<>>,
               totals |-> <<0, 0>>]
         ELSE IF rows[1].last_spin_date # today
         THEN [status |-> 200, canSpin |-> TRUE, nextSpinDate |-> <<>>,
               totals |-> <<rows[1].total_spins, rows[1].total_wins>>]
         ELSE [status |-> 200, canSpin |-> FALSE,
               nextSpinDate |-> <<AddDay(ParseDateString(rows[1].last_spin_date))>>,
               totals |-> <<rows[1].total_spins, rows[1].total_wins>>]

\* A variant of CheckSelect that registers an unknown identifier on sight.
CheckSelectRegistering(q, ok) ==
    /\ q.pc = "select"
    /\ q.kind = "check"
    /\ LET key == BindParam(q.body)
           rows == SelectRows(table, key)
       IN /\ sent' = Answer([q EXCEPT !.rows = rows],
                            CheckAnswer(rows, q.today, now))
          /\ table' = IF rows = <<>> /\ ok /\ ~ViolatesConstraint(table, key)
                      THEN InsertRow(table, key, q.today, 0)
                      ELSE table
    /\ inflight' = inflight (-) One(q)
    /\ UNCHANGED <<variant, tz, now, served, commits, resultats,
                   requestCounts, admitted, uncleaned>>

\* /api/roue/check after its SELECT: the answer, or 500 when the query failed.
CheckSelect(q, ok) ==
    /\ q.pc = "select"
    /\ q.kind = "check"
    /\ LET rows == SelectRows(table, BindParam(q.body))
       IN sent' = IF ok
                  THEN Answer([q EXCEPT !.rows = rows],
                              CheckAnswer(rows, q.today, now))
                  ELSE Answer(q, ServerError("unavailable"))
    /\ inflight' = inflight (-) One(q)
    /\ UNCHANGED <<variant, tz, now, table, served, commits, resultats,
                   requestCounts, admitted, uncleaned>>

\* if (row && lastDate === today): the date check of /api/roue/spin.
AlreadyPlayed(rows, today) ==
    /\ rows # <<>>
    /\ IF variant = "pg" THEN PgLastDate(rows[1]) = today
                         ELSE rows[1].last_spin_date = today

\* A wheel with two winning values.
HasWonTwoSlots(draw) == draw \in {0, 1}

\* Math.floor(Math.random() * 50) === 0
HasWon(draw) == draw = 0

\* The outcomes the draw can produce.
Outcomes == {HasWon(draw) : draw \in 0..(WheelSlots - 1)}

\* /api/roue/spin after its SELECT: 500, 403, or the draw and the write issued.
SpinSelect(q, ok, won) ==
    /\ q.pc = "select"
    /\ q.kind = "spin"
    /\ LET rows == SelectRows(table, BindParam(q.body))
       IN IF ~ok
          THEN /\ sent' = Answer(q, ServerError("unavailable"))
               /\ inflight' = inflight (-) One(q)
          ELSE IF AlreadyPlayed(rows, q.today)
          THEN /\ sent' = Answer([q EXCEPT !.rows = rows], [status |-> 403])
               /\ inflight' = inflight (-) One(q)
          ELSE /\ inflight' = (inflight (-) One(q)) (+)
                     One([q EXCEPT !.pc = "write", !.rows = rows,
                                   !.hasWon = won, !.queries = @ + 1])
               /\ sent' = NoAnswer
    /\ UNCHANGED <<variant, tz, now, table, served, commits, resultats,
                   requestCounts, admitted, uncleaned>>

\* The body of a 200 answer of /api/roue/spin.
SpinAnswer(rows, hasWon) ==
    LET winInc == IF hasWon THEN 1 ELSE 0
    IN [status |-> 200, hasWon |-> hasWon, canSpin |-> FALSE,
        totals |-> IF variant = "pg" THEN <<>>
                   ELSE IF rows = <<>> THEN <<1, winInc>>
                   ELSE <<rows[1].total_spins + 1, rows[1].total_wins + winInc>>]

\* A variant of SpinWrite whose INSERT is an upsert (ON CONFLICT DO UPDATE).
SpinWriteUpsert(q, ok) ==
    /\ q.pc = "write"
    /\ LET key == BindParam(q.body)
           winInc == IF q.hasWon THEN 1 ELSE 0
           insert == q.rows = <<>> /\ SelectRows(table, key) = <<>>
           done == ok /\ key # SqlNull
       IN /\ table' = IF ~done THEN table
                      ELSE IF insert
                      THEN InsertRow(table, key, q.today, winInc)
                      ELSE UpdateRows(table, key, q.today, winInc)
          /\ commits' = IF done
                        THEN [commits EXCEPT ![key][ISODate(now)] = @ + 1]
                        ELSE commits
          /\ sent' = Answer(q, IF done THEN SpinAnswer(q.rows, q.hasWon)
                               ELSE IF ok THEN ServerError("constraint")
                               ELSE ServerError("unavailable"))
    /\ inflight' = inflight (-) One(q)
    /\ UNCHANGED <<variant, tz, now, served, resultats,
                   requestCounts, admitted, uncleaned>>

\* A variant of SpinWrite whose UPDATE takes effect although it fails.
SpinWriteHalfDone(q, ok) ==
    /\ q.pc = "write"
    /\ LET key == BindParam(q.body)
           winInc == IF q.hasWon THEN 1 ELSE 0
           insert == q.rows = <<>>
           done == ok /\ (insert => ~ViolatesConstraint(table, key))
       IN /\ table' = IF insert
                      THEN IF done THEN InsertRow(table, key, q.today, winInc)
                           ELSE table
                      ELSE UpdateRows(table, key, q.today, winInc)
          /\ commits' = IF done
                        THEN [commits EXCEPT ![key][ISODate(now)] = @ + 1]
                        ELSE commits
          /\ sent' = Answer(q, IF done THEN SpinAnswer(q.rows, q.hasWon)
                               ELSE IF ok THEN ServerError("constraint")
                               ELSE ServerError("unavailable"))
    /\ inflight' = inflight (-) One(q)
    /\ UNCHANGED <<variant, tz, now, served, resultats,
                   requestCounts, admitted, uncleaned>>

\* /api/roue/spin: the INSERT (no row was read) or the UPDATE, and the answer.
SpinWrite(q, ok) ==
    /\ q.pc = "write"
    /\ LET key == BindParam(q.body)
           winInc == IF q.hasWon THEN 1 ELSE 0
           insert == q.rows = <<>>
           done == ok /\ (insert => ~ViolatesConstraint(table, key))
       IN /\ table' = IF ~done THEN table
                      ELSE IF insert
                      THEN InsertRow(table, key, q.today, winInc)
                      ELSE UpdateRows(table, key, q.today, winInc)
          /\ commits' = IF done
                        THEN [commits EXCEPT ![key][ISODate(now)] = @ + 1]
                        ELSE commits
          /\ sent' = Answer(q, IF done THEN SpinAnswer(q.rows, q.hasWon)
                               ELSE IF ok THEN ServerError("constraint")
                               ELSE ServerError("unavailable"))
    /\ inflight' = inflight (-) One(q)
    /\ UNCHANGED <<variant, tz, now, served, resultats,
                   requestCounts, admitted, uncleaned>>

\* A request arrives: any route, any body.
Arrive == \E kind \in {"check", "spin"}, body \in Bodies : Receive(kind, body)

\* A pending SELECT or INSERT/UPDATE completes, or fails (ok = FALSE), and
\* the handler runs on.
CheckStep == \E q \in Pending, ok \in BOOLEAN : CheckSelect(q, ok)
SpinStep == \E q \in Pending, ok \in BOOLEAN, won \in Outcomes : SpinSelect(q, ok, won)
WriteStep == \E q \in Pending, ok \in BOOLEAN : SpinWrite(q, ok)

Next == Tick \/ Arrive \/ CheckStep \/ SpinStep \/ WriteStep

Spec == Init /\ [][Next]_vars

\* ------------------------------------------------------- two identifiers

\* A second identifier that is a string: "7".  (The PostgreSQL variants bind
\* the number 7 to the same text, so there 7 and "7" name one entry.)
OtherIdentifier == Str(Num7.val)

\* A request of the second identifier arrives.
ArriveOther == \E kind \in {"check", "spin"} : Receive(kind, OtherIdentifier)

NextTwo == Tick \/ Arrive \/ ArriveOther \/ CheckStep \/ SpinStep \/ WriteStep

\* The process runs at UTC.
InitTwo == Init /\ tz = 0

\* The wheel with the requests of two identifiers interleaved.
SpecTwo == InitTwo /\ [][NextTwo]_vars

\* --------------------------------------------------- POST /api/resultats

\* The three programs of server.js differ on this route: the first validates
\* against the lists, the second does not validate, the third (SQLite) runs
\* the validateScore middleware.
ResultatsVariants == {"pg_validating", "pg", "sqlite"}

\* The validation lists, as loaded from the data files.
partisValides == {"Macron"}
associationsValides == {"bde"}
formationsValides == {"info"}
colocsValides == {"coloc1"}

\* JSON values of the body's fields: numbers and arrays besides strings.
Num(n) == [type |-> "number", val |-> n]
Arr(S) == [type |-> "array", val |-> S]

\* A value in a condition: if (v)
Truthy(v) == ~Falsy(v) /\ ~(v.type = "number" /\ v.val = 0)

\* list.includes(v): strict equality with one of the list's strings.
Includes(list, v) == v.type = "string" /\ v.val \in list

\* A body the first program accepts whole.
GoodBody ==
    [score |-> Num(100), parti_proche |-> Str("Macron"),
     associations |-> Arr({"bde"}), formation |-> Str("info"),
     coloc |-> Str("coloc1")]

\* The bodies posted: the good one, and the good one with one field changed.
ResultBodies ==
    {GoodBody}
    \cup {[GoodBody EXCEPT !.score = v] :
             v \in {Num(0 - 1), Num(0), Num(101), Absent, Str("50")}}
    \cup {[GoodBody EXCEPT !.parti_proche = v] : v \in {Absent, Str("Nobody")}}
    \cup {[GoodBody EXCEPT !.associations = v] :
             v \in {Absent, Arr({"intrus"}), Str("bde"), Num(0)}}
    \cup {[GoodBody EXCEPT !.formation = v] : v \in {Absent, Str("autre")}}
    \cup {[GoodBody EXCEPT !.coloc = v] : v \in {Absent, Str("ailleurs")}}

\* typeof score !== 'number' || score < 0 || score > 100
\* (JSON delivers no NaN).
BadScore(v) == v.type # "number" \/ v.val < 0 \/ v.val > 100

\* The checks of the first program, each answering 400.
RejectsPgValidating(b) ==
    \/ Falsy(b.parti_proche) \/ ~Includes(partisValides, b.parti_proche)
    \/ BadScore(b.score)
    \/ /\ Truthy(b.associations)
       /\ \/ b.associations.type # "array"
          \/ \E a \in b.associations.val :
                associationsValides # {} /\ a \notin associationsValides
    \/ /\ Truthy(b.formation)
       /\ formationsValides # {}
       /\ ~Includes(formationsValides, b.formation)
    \/ /\ Truthy(b.coloc)
       /\ colocsValides # {}
       /\ ~Includes(colocsValides, b.coloc)

\* v && typeof v !== 'string', or v && v.length > limit
BadText(v, limit) ==
    Truthy(v) /\ (v.type # "string" \/ Len(v.val) > limit)

\* validateScore: the middleware of the SQLite program, each check answering 400.
RejectsValidateScore(b) ==
    \/ b.score.type = "undefined"
    \/ BadScore(b.score)
    \/ BadText(b.parti_proche, 100)
    \/ BadText(b.formation, 200)
    \/ BadText(b.coloc, 200)
    \/ /\ Truthy(b.associations)
       /\ \/ b.associations.type # "array"
          \/ Cardinality(b.associations.val) > 50

RejectsResult(b) ==
    CASE variant = "pg_validating" -> RejectsPgValidating(b)
      [] variant = "pg" -> FALSE
      [] variant = "sqlite" -> RejectsValidateScore(b)

\* NULL in a column of resultats.
Null == [type |-> "null", val |-> ""]

\* The parameters of the INSERT as the driver binds them: undefined as NULL.
BindValue(v) == IF v.type = "undefined" THEN Null ELSE v

\* What a REAL column makes of a parameter: a number, also from its text.
ParseReal(v) == IF v.type = "string" /\ v.val = "50" THEN Num(50) ELSE v

\* JSON.stringify(associations): undefined stays undefined, any other
\* value becomes its JSON text.
JSONStringify(v) ==
    IF v.type = "undefined" THEN v ELSE [type |-> "json", val |-> v]

\* INSERT INTO resultats (score, parti_proche, associations, formation, coloc)
ResultRow(b) ==
    [score |-> ParseReal(BindValue(b.score)),
     parti_proche |-> BindValue(b.parti_proche),
     associations |-> BindValue(JSONStringify(b.associations)),
     formation |-> BindValue(b.formation),
     coloc |-> BindValue(b.coloc)]

\* score REAL NOT NULL
ViolatesScoreNotNull(row) == row.score = Null

ResultAnswer(b, resp) == [kind |-> "resultats", body |-> b, resp |-> resp]

\* POST /api/resultats: validation, the INSERT (which can fail), the answer.
PostResultats(b, ok) ==
    /\ served < MaxRequests
    /\ served' = served + 1
    /\ IF RejectsResult(b)
       THEN /\ sent' = ResultAnswer(b, [status |-> 400])
            /\ UNCHANGED resultats
       ELSE IF ok /\ ~ViolatesScoreNotNull(ResultRow(b))
       THEN /\ resultats' = Append(resultats, ResultRow(b))
            /\ sent' = ResultAnswer(b, [status |-> 200, id |-> Len(resultats) + 1])
       ELSE /\ sent' = ResultAnswer(b, ServerError(IF ok THEN "constraint"
                                                   ELSE "unavailable"))
            /\ UNCHANGED resultats
    /\ UNCHANGED <<variant, tz, now, table, inflight, commits,
                   requestCounts, admitted, uncleaned>>

InitResultats ==
    /\ variant \in ResultatsVariants
    /\ tz = 0
    /\ now = FirstTick
    /\ table = <<>>
    /\ inflight = EmptyBag
    /\ sent = NoAnswer
    /\ served = 0
    /\ commits = [k \in DbKeys |-> [d \in Days |-> 0]]
    /\ resultats = <<>>
    /\ requestCounts = EmptyMap
    /\ admitted = [ip \in IPs |-> <<>>]
    /\ uncleaned = EmptyMap

PostStep == \E b \in ResultBodies, ok \in BOOLEAN : PostResultats(b, ok)

NextResultats == PostStep

SpecResultats == InitResultats /\ [][NextResultats]_vars

\* ------------------------------------------------------------ rateLimiter

\* The clock of the limiter is Date.now() in ms.  The events of a run happen
\* at these instants, which put requests 1 ms apart, one ms less than the
\* window apart, and exactly the window apart.
Instants == {FirstTick, FirstTick + 1, FirstTick + RATE_LIMIT_WINDOW}

\* A filter that keeps a time until it is older than the window.
RecentInclusive(times, t) ==
    SelectSeq(times, LAMBDA time : t - time <= RATE_LIMIT_WINDOW)

\* .filter(time => now - time < RATE_LIMIT_WINDOW)
Recent(times, t) ==
    SelectSeq(times, LAMBDA time : t - time < RATE_LIMIT_WINDOW)

\* requestCounts.set(ip, times)
MapSet(map, ip, times) ==
    [k \in DOMAIN map \cup {ip} |-> IF k = ip THEN times ELSE map[k]]

\* requestCounts.delete(ip)
MapDelete(map, ip) == [k \in DOMAIN map \ {ip} |-> map[k]]

LimiterAnswer(ip, resp) == [kind |-> "limiter", ip |-> ip, resp |-> resp]

\* Whether rateLimiter answers 429 to a request of ip at t, run on map.
LimiterRejects(map, ip, t) ==
    /\ ip \in DOMAIN map
    /\ Len(Recent(map[ip], t)) >= MAX_REQUESTS

\* The Map that rateLimiter leaves, run on map for a request of ip at t.
LimiterMap(map, ip, t) ==
    LET known == IF ip \in DOMAIN map THEN map ELSE MapSet(map, ip, <<>>)
    IN IF LimiterRejects(map, ip, t) THEN known
       ELSE MapSet(known, ip, Append(Recent(known[ip], t), t))

\* rateLimiter(req, res, next): 429, or the request recorded and next();
\* status 200 stands for next(), after which the route answers.
RateLimiter(ip) ==
    /\ served < MaxArrivals
    /\ served' = served + 1
    /\ LET known == IF ip \in DOMAIN requestCounts THEN requestCounts
                    ELSE MapSet(requestCounts, ip, <<>>)
           requests == Recent(known[ip], now)
       IN IF Len(requests) >= MAX_REQUESTS
          THEN /\ sent' = LimiterAnswer(ip, [status |-> 429])
               /\ requestCounts' = known
               /\ UNCHANGED admitted
          ELSE /\ sent' = LimiterAnswer(ip, [status |-> 200])
               /\ requestCounts' = MapSet(known, ip, Append(requests, now))
               /\ admitted' = [admitted EXCEPT ![ip] = Append(@, now)]
    /\ uncleaned' = LimiterMap(uncleaned, ip, now)
    /\ UNCHANGED <<variant, tz, now, table, inflight, commits, resultats>>

\* A cleanup that empties the map.
CleanupAll ==
    /\ requestCounts' = EmptyMap
    /\ requestCounts' # requestCounts
    /\ sent' = NoAnswer
    /\ UNCHANGED <<variant, tz, now, table, inflight, served, commits,
                   resultats, admitted, uncleaned>>

\* The callback of setInterval: every entry filtered, the empty ones deleted.
\* The model lets it run at any instant, which covers every schedule of the
\* timer.
Cleanup ==
    /\ requestCounts' =
         [ip \in {k \in DOMAIN requestCounts :
                    Recent(requestCounts[k], now) # <<>>}
            |-> Recent(requestCounts[ip], now)]
    /\ requestCounts' # requestCounts
    /\ sent' = NoAnswer
    /\ UNCHANGED <<variant, tz, now, table, inflight, served, commits,
                   resultats, admitted, uncleaned>>

\* Time passes, to the next instant at which something happens.
Advance(t) ==
    /\ t > now
    /\ now' = t
    /\ sent' = NoAnswer
    /\ UNCHANGED <<variant, tz, table, inflight, served, commits, resultats,
                   requestCounts, admitted, uncleaned>>

InitLimiter ==
    /\ variant = "sqlite"
    /\ tz = 0
    /\ now = FirstTick
    /\ table = <<>>
    /\ inflight = EmptyBag
    /\ sent = NoAnswer
    /\ served = 0
    /\ commits = [k \in DbKeys |-> [d \in Days |-> 0]]
    /\ resultats = <<>>
    /\ requestCounts = EmptyMap
    /\ admitted = [ip \in IPs |-> <<>>]
    /\ uncleaned = EmptyMap

LimitStep == \E ip \in IPs : RateLimiter(ip)
ClockStep == \E t \in Instants : Advance(t)

NextLimiter == LimitStep \/ ClockStep \/ Cleanup

SpecLimiter == InitLimiter /\ [][NextLimiter]_vars

\* ------------------------------------------------------------------ claims

RowsOf(key) == {i \in 1..Len(table) : table[i].user_identifier = key}
Unavailable == sent.resp = ServerError("unavailable")

\* C1: of the spin requests for one identifier that run on one calendar day,
\* in any interleaving, exactly one commits and every other one is answered
\* 403: each such request that is answered (the store being reachable) is
\* answered 200 or 403, and the day then counts exactly one commit.
C1_ExactlyOneCommit ==
    (/\ sent.kind = "spin"
     /\ sent.body.type = "string"
     /\ sent.today = ISODate(now)
     /\ ~Unavailable)
    => /\ sent.resp.status \in {200, 403}
       /\ commits[sent.body.val][sent.today] = 1

\* C2: every (identifier, calendar date) pair has at most one committed spin.
C2_AtMostOneCommitPerDay ==
    \A k \in DbKeys : \A d \in Days : commits[k][d] <= 1

\* C3: a spin request that arrives alone on a date on which its identifier
\* has already committed a spin, and runs alone, is answered 403 and none of
\* its steps changes the table.
C3_SecondSpinRejected ==
    [][((\E q \in Pending : q.repeat) /\ inflight' # inflight)
       => /\ table' = table
          /\ (sent'.kind # "none" /\ sent'.resp # ServerError("unavailable"))
             => sent'.resp.status = 403]_vars

\* C4: every commit writes a last_spin_date that is the calendar date current
\* at the commit and that is not earlier than the one stored before.
C4_LastSpinDateIsCommitDate ==
    [][\A i \in 1..Len(table') :
          (i > Len(table) \/ table'[i] # table[i])
          => /\ table'[i].last_spin_date = ISODate(now')
             /\ i <= Len(table)
                => table'[i].last_spin_date >= table[i].last_spin_date]_vars

\* C5: every row has 0 <= total_wins <= total_spins.
C5_WinsAtMostSpins ==
    \A i \in 1..Len(table) :
        /\ 0 <= table[i].total_wins
        /\ table[i].total_wins <= table[i].total_spins

\* C5 witness: a row that was inserted by a winning spin and updated by
\* another winning spin.
C5_Witness ==
    \E i \in 1..Len(table) : table[i].total_spins = 2 /\ table[i].total_wins = 2

\* C6: the table holds at most one row per identifier.
C6_OneRowPerIdentifier ==
    \A k \in DbKeys : Cardinality(RowsOf(k)) <= 1

\* C6 witness: a first spin read no row and its INSERT was refused, because
\* another first spin of the identifier inserted in between; one row stands.
C6_Witness ==
    /\ sent.kind = "spin"
    /\ sent.rows = <<>>
    /\ sent.resp = ServerError("constraint")
    /\ sent.body.type = "string"
    /\ Cardinality(RowsOf(sent.body.val)) = 1

\* C7: check answers canSpin = true exactly when its SELECT found no row or
\* a row whose stored last_spin_date is not today.
C7_CanSpinIffNotPlayedToday ==
    (sent.kind = "check" /\ sent.resp.status = 200)
    => (sent.resp.canSpin
        <=> (sent.rows = <<>> \/ sent.rows[1].last_spin_date # sent.today))

\* C8: with canSpin = false, nextSpinDate is 00:00 of the day after the
\* stored last_spin_date; with canSpin = true it is null.
C8_NextSpinDateIsNextMidnight ==
    (sent.kind = "check" /\ sent.resp.status = 200)
    => sent.resp.nextSpinDate =
         IF sent.resp.canSpin THEN <<>>
         ELSE <<(sent.rows[1].last_spin_date + 1) * TicksPerDay>>

\* C9: no step of a check request, its arrival or its answer, changes the
\* table, whatever the answer is.
C9_CheckLeavesTable ==
    [][((\E q \in BagToSet(inflight') \ Pending : q.kind = "check")
        \/ sent'.kind = "check")
       => table' = table]_vars

\* C9 witness: a check has been answered "not eligible" over a table that
\* holds the identifier's row.
C9_Witness ==
    /\ sent.kind = "check"
    /\ sent.resp.status = 200
    /\ ~sent.resp.canSpin
    /\ sent.rows # <<>>
    /\ SelectRows(table, BindParam(sent.body)) = sent.rows

\* C10: a request whose userIdentifier is absent or not a string issues no
\* statement to the store and is answered 400.
C10_InvalidIdentifierRejected ==
    /\ \A q \in Pending : q.body.type = "string"
    /\ (sent.kind # "none" /\ sent.body.type # "string")
       => (sent.queries = 0 /\ sent.resp.status = 400)

\* A step that answers the request q, taking it out of the requests in flight.
Answers(q) == inflight' = inflight (-) One(q) /\ sent'.kind = q.kind

\* C11: a spin request one of whose statements fails, by a store that cannot
\* be reached or by a refused constraint, is answered 500 and not 403, and
\* the step that fails leaves every row of the table as it was; a request
\* that fails has written nothing before (its write is its last statement).
C11_FailedSpinLeavesTable ==
    [][\A q \in Pending :
          (q.kind = "spin" /\ Answers(q))
          => /\ (/\ q.pc = "write"
                 /\ q.rows = <<>>
                 /\ ViolatesConstraint(table, BindParam(q.body)))
                => sent'.resp.status = 500
             /\ sent'.resp.status = 500
                => /\ table' = table
                   /\ commits' = commits
                   /\ sent'.resp.status # 403
                   /\ q.queries = IF q.pc = "write" THEN 2 ELSE 1]_vars

\* C11 witness: the UPDATE of a spin whose SELECT read the identifier's row
\* failed, and the row stands as it was read.
C11_Witness ==
    /\ sent.kind = "spin"
    /\ sent.rows # <<>>
    /\ sent.resp = ServerError("unavailable")
    /\ SelectRows(table, BindParam(sent.body)) = sent.rows

\* The totals of the entry of key in a table: 0, 0 while there is no entry.
TotalSpins(t, key) ==
    IF SelectRows(t, key) = <<>> THEN 0 ELSE SelectRows(t, key)[1].total_spins
TotalWins(t, key) ==
    IF SelectRows(t, key) = <<>> THEN 0 ELSE SelectRows(t, key)[1].total_wins

\* The spins of key answered with success so far, all dates together.
RECURSIVE SumTo(_, _)
SumTo(f, d) == IF d < ISODate(FirstTick) THEN 0 ELSE f[d] + SumTo(f, d - 1)
Successes(key) == SumTo(commits[key], ISODate(LastTick))

\* C12: for every identifier, a step that answers one of its spins with
\* success raises total_spins by exactly 1 and total_wins by 1 exactly when
\* the answer says hasWon, every other step leaves both as they are, no step
\* removes an entry, and total_spins is the number of spins answered with
\* success.  (A step that changes neither the table nor the count of
\* successes has only to answer no spin with success.)
C12_TotalsCountSuccesses ==
    [][IF table' = table /\ commits' = commits
       THEN ~(sent'.kind = "spin" /\ sent'.resp.status = 200)
       ELSE \A k \in DbKeys :
              LET success == /\ sent'.kind = "spin"
                             /\ sent'.resp.status = 200
                             /\ BindParam(sent'.body) = k
              IN /\ Len(SelectRows(table', k)) >= Len(SelectRows(table, k))
                 /\ TotalSpins(table', k) =
                      TotalSpins(table, k) + (IF success THEN 1 ELSE 0)
                 /\ TotalWins(table', k) =
                      TotalWins(table, k)
                      + (IF success /\ sent'.resp.hasWon THEN 1 ELSE 0)
                 /\ TotalSpins(table', k) = Successes(k)']_vars

\* C12 witness: the second successful spin of an identifier, a win after a
\* loss, has just been answered; its entry counts 2 spins and 1 win.
C12_Witness ==
    /\ sent.kind = "spin"
    /\ sent.resp.status = 200
    /\ sent.resp.hasWon
    /\ sent.rows # <<>>
    /\ TotalSpins(table, BindParam(sent.body)) = 2
    /\ TotalWins(table, BindParam(sent.body)) = 1
    /\ Successes(BindParam(sent.body)) = 2

\* C13: the totals in a 200 answer of a spin are the totals of the
\* identifier's row as the request's own INSERT or UPDATE left it.
C13_AnswerTotalsAreStored ==
    (sent.kind = "spin" /\ sent.resp.status = 200)
    => sent.resp.totals = <<TotalSpins(table, BindParam(sent.body)),
                            TotalWins(table, BindParam(sent.body))>>

\* A field that the body carries.
Present(v) == v.type # "undefined"

\* A valid quiz result: score a number in 0..100, the party in the list,
\* associations (if present) an array of listed associations, formation and
\* coloc (if present) listed.
ValidResult(b) ==
    /\ b.score.type = "number" /\ 0 <= b.score.val /\ b.score.val <= 100
    /\ Includes(partisValides, b.parti_proche)
    /\ Present(b.associations)
       => /\ b.associations.type = "array"
          /\ b.associations.val \subseteq associationsValides
    /\ Present(b.formation) => Includes(formationsValides, b.formation)
    /\ Present(b.coloc) => Includes(colocsValides, b.coloc)

\* C14: POST /api/resultats inserts a row only for a valid result, and an
\* invalid one is answered 400 and inserts no row.
C14_OnlyValidResultsStored ==
    [][sent'.kind = "resultats"
       => /\ resultats' # resultats => ValidResult(sent'.body)
          /\ ~ValidResult(sent'.body)
             => (sent'.resp.status = 400 /\ resultats' = resultats)]_vars

\* C15: a step that commits a spin (answers it 200) creates the identifier's
\* entry as (today, 1, 1 if won else 0) when there was none, and otherwise
\* sets its date to today, adds 1 to total_spins and adds 1 to total_wins
\* exactly when the spin won, today being the date the request computed; a
\* step that rejects a spin (403) changes no entry.  Hence the entry of an
\* identifier that spun on d counts 2 spins after its spin of d + 1,
\* rejections in between or not.
C15_CommitEffect ==
    [][/\ (sent'.kind = "spin" /\ sent'.resp.status = 200)
          => LET k == BindParam(sent'.body)
                 w == IF sent'.resp.hasWon THEN 1 ELSE 0
                 before == SelectRows(table, k)
                 after == SelectRows(table', k)
             IN IF before = <<>>
                THEN after = <<[user_identifier |-> k,
                                last_spin_date |-> sent'.today,
                                total_spins |-> 1,
                                total_wins |-> w]>>
                ELSE after = <<[before[1] EXCEPT
                                  !.last_spin_date = sent'.today,
                                  !.total_spins = @ + 1,
                                  !.total_wins = @ + w]>>
       /\ (sent'.kind = "spin" /\ sent'.resp.status = 403)
          => table' = table]_vars

\* C15 witness: an identifier whose only earlier commit was on the day
\* before has committed a spin today, and its entry counts 2 spins.
C15_Witness ==
    /\ sent.kind = "spin"
    /\ sent.resp.status = 200
    /\ sent.rows # <<>>
    /\ sent.rows[1].total_spins = 1
    /\ sent.rows[1].last_spin_date + 1 = sent.today
    /\ sent.today = ISODate(now)
    /\ commits[BindParam(sent.body)][sent.today - 1] = 1
    /\ commits[BindParam(sent.body)][sent.today] = 1
    /\ served = MaxRequests
    /\ SelectRows(table, BindParam(sent.body)) =
         <<[sent.rows[1] EXCEPT !.last_spin_date = sent.today,
                                !.total_spins = 2,
                                !.total_wins = @ + (IF sent.resp.hasWon
                                                    THEN 1 ELSE 0)]>>

\* On the same rows and the same date, check says canSpin exactly when spin
\* does not reject as already played.
CheckAndSpinAgree ==
    \A k \in DbKeys : \A d \in Days :
        CheckAnswer(SelectRows(table, k), d, now).canSpin
        <=> ~AlreadyPlayed(SelectRows(table, k), d)

\* C16: check and spin decide alike on the same entry and date, and a check
\* of date d whose SELECT runs after a spin of its identifier has committed
\* on date d answers canSpin = false.
C16_CheckAgreesWithSpin ==
    /\ CheckAndSpinAgree
    /\ (/\ sent.kind = "check"
        /\ sent.resp.status = 200
        /\ sent.body.type = "string"
        /\ commits[sent.body.val][sent.today] >= 1)
       => ~sent.resp.canSpin

\* A spin whose SELECT is pending and whose date check will pass.
Accepted(q) ==
    /\ q.pc = "select"
    /\ q.kind = "spin"
    /\ ~AlreadyPlayed(SelectRows(table, BindParam(q.body)), q.today)

\* The step of q that draws the outcome w is possible.
CanDraw(q, w) ==
    ENABLED (/\ SpinStep
             /\ inflight' = (inflight (-) One(q)) (+)
                   One([q EXCEPT !.pc = "write",
                                 !.rows = SelectRows(table, BindParam(q.body)),
                                 !.hasWon = w,
                                 !.queries = @ + 1]))

\* C17: of the 50 values 0..49 of the draw exactly one, 0, wins; and in
\* every state, whatever the identifier and its row, a spin that passes the
\* date check can win and can lose.
C17_DrawIsOneInFifty ==
    /\ WheelSlots = 50
    /\ {draw \in 0..(WheelSlots - 1) : HasWon(draw)} = {0}
    /\ \A q \in Pending :
          Accepted(q) => (CanDraw(q, TRUE) /\ CanDraw(q, FALSE))

\* C17 witness: a spin of an identifier whose first spin won has drawn a
\* win again and its UPDATE is pending.
C17_Witness ==
    \E q \in Pending :
        /\ q.pc = "write"
        /\ q.hasWon
        /\ q.rows # <<>>
        /\ q.rows[1].total_wins = q.rows[1].total_spins

\* C18: of the spins that read no entry for their identifier, one whose
\* INSERT comes when the identifier has an entry is answered 500 and leaves
\* the table as it is; one that is answered 200 came when there was no
\* entry and leaves exactly one.  So at most one of them succeeds.
C18_FirstSpinRaceHasOneWinner ==
    [][\A q \in Pending :
          (q.pc = "write" /\ q.rows = <<>> /\ Answers(q))
          => LET key == BindParam(q.body)
             IN /\ SelectRows(table, key) # <<>>
                   => (sent'.resp.status = 500 /\ table' = table)
                /\ sent'.resp.status = 200
                   => /\ SelectRows(table, key) = <<>>
                      /\ Len(SelectRows(table', key)) = 1
                      /\ Successes(key)' = 1
                /\ sent'.resp.status \in {200, 500}]_vars

\* C18 witness: two first spins of an identifier read no entry; the INSERT
\* of one committed and the INSERT of the other has just been refused.
C18_Witness ==
    /\ sent.kind = "spin"
    /\ sent.rows = <<>>
    /\ sent.resp = ServerError("constraint")
    /\ BindParam(sent.body) # SqlNull
    /\ TotalSpins(table, BindParam(sent.body)) = 1
    /\ Successes(BindParam(sent.body)) = 1
    /\ Len(table) = 1

\* C19: a step changes the entry of an identifier (its presence, date or
\* totals) only if it is a step of a request of that identifier: the entry
\* of every other identifier is as before.
C19_OtherEntriesUnchanged ==
    [][\A k \in DbKeys :
          SelectRows(table', k) # SelectRows(table, k)
          => /\ sent'.kind = "spin"
             /\ BindParam(sent'.body) = k
             /\ \A other \in DbKeys \ {k} :
                   SelectRows(table', other) = SelectRows(table, other)]_vars

\* C19 witness: with the entries of both identifiers in the table, a spin
\* of "a" has updated its entry, a string identifier's as the other's is.
C19_Witness ==
    /\ Len(table) = 2
    /\ sent.kind = "spin"
    /\ sent.resp.status = 200
    /\ sent.body = Str("a")
    /\ sent.rows # <<>>
    /\ SelectRows(table, OtherIdentifier.val) # <<>>
    /\ TotalSpins(table, "a") = sent.rows[1].total_spins + 1

\* The requests of ip admitted so far that are younger than the window at t.
YoungAdmitted(ip, t) ==
    {i \in 1..Len(admitted[ip]) : t - admitted[ip][i] < RATE_LIMIT_WINDOW}

YoungIn(map, ip, t) ==
    IF ip \in DOMAIN map
    THEN {i \in 1..Len(map[ip]) : t - map[ip][i] < RATE_LIMIT_WINDOW}
    ELSE {}

\* C21: each request is answered by the limiter, whose map the cleanup
\* callback has cleaned at any instants, as it is answered on the map that
\* was never cleaned; and a run of the callback removes from an entry only
\* times that are RATE_LIMIT_WINDOW old or older and deletes only an IP
\* none of whose times is younger.
C21_CleanupIsTransparent ==
    [][/\ sent'.kind = "limiter"
          => (sent'.resp.status = 429
              <=> LimiterRejects(uncleaned, sent'.ip, now))
       /\ (sent'.kind = "none" /\ requestCounts' # requestCounts)
          => \A ip \in DOMAIN requestCounts :
                /\ Cardinality(YoungIn(requestCounts', ip, now))
                   = Cardinality(YoungIn(requestCounts, ip, now))
                /\ ip \in DOMAIN requestCounts'
                   => \A i \in 1..Len(requestCounts'[ip]) :
                         now - requestCounts'[ip][i] < RATE_LIMIT_WINDOW
                /\ ip \notin DOMAIN requestCounts'
                   => YoungIn(requestCounts, ip, now) = {}]_vars

\* C21 witness: the callback has run at the last instant and deleted the
\* entry of an IP whose only request had aged out, which the map that was
\* never cleaned still holds; the other IP, whose MAX_REQUESTS requests of
\* the first instant had aged out too, has been admitted at that instant.
C21_Witness ==
    /\ sent.kind = "limiter"
    /\ sent.resp.status = 200
    /\ now = FirstTick + RATE_LIMIT_WINDOW
    /\ Len(admitted[sent.ip]) = MAX_REQUESTS + 1
    /\ admitted[sent.ip][MAX_REQUESTS] = FirstTick
    /\ DOMAIN requestCounts = {sent.ip}
    /\ \E other \in DOMAIN uncleaned \ {sent.ip} :
          uncleaned[other] = <<FirstTick>>
====
